---- MODULE Spec2Model ----
(***************************************************************************)
(* A model of cashrake_sim.py: the monthly recurrence of simulate(), the   *)
(* daily disaggregation and the weekly aggregation.                        *)
(*                                                                         *)
(* Every quantity of the program is a Python float (IEEE 754 binary64).    *)
(* The model computes with the same numbers: a float is a record           *)
(* [s, e, m] of value (-1)^s * m * 2^e whose m is a 53-bit natural kept as *)
(* limbs, and every operation rounds to nearest, ties to even, as the      *)
(* hardware does.  The program's values stay far from the subnormal and    *)
(* the overflow range, and no negative zero arises (it never multiplies a  *)
(* zero by a negative number), so neither is modelled.                     *)
(***************************************************************************)
EXTENDS Integers, Sequences, FiniteSets, TLC

(***************************************************************************)
(* Naturals of any size: little-endian sequences of limbs below Base, with *)
(* no leading zero limb (zero is the empty sequence).                      *)
(***************************************************************************)
Base == 2^15
LimbBits == 14 + 1

RECURSIVE BTrim(_)
BTrim(a) ==
    IF Len(a) > 0 /\ a[Len(a)] = 0 THEN BTrim(SubSeq(a, 1, Len(a) - 1)) ELSE a

RECURSIVE BFromInt(_)
BFromInt(n) == IF n = 0 THEN <<>> ELSE <<n % Base>> \o BFromInt(n \div Base)

RECURSIVE BAddC(_, _, _, _)
BAddC(a, b, i, c) ==
    IF i > Len(a) /\ i > Len(b)
    THEN (IF c = 0 THEN <<>> ELSE <<c>>)
    ELSE LET x == (IF i <= Len(a) THEN a[i] ELSE 0)
                   + (IF i <= Len(b) THEN b[i] ELSE 0) + c
         IN  <<x % Base>> \o BAddC(a, b, i + 1, x \div Base)

BAdd(a, b) == BAddC(a, b, 1, 0)

\* a - b for a >= b
RECURSIVE BSubC(_, _, _, _)
BSubC(a, b, i, c) ==
    IF i > Len(a)
    THEN <<>>
    ELSE LET x == a[i] - (IF i <= Len(b) THEN b[i] ELSE 0) - c
         IN  IF x < 0
             THEN <<x + Base>> \o BSubC(a, b, i + 1, 1)
             ELSE <<x>> \o BSubC(a, b, i + 1, 0)

BSub(a, b) == BTrim(BSubC(a, b, 1, 0))

\* -1, 0, 1 as a < b, a = b, a > b
RECURSIVE BCmpAt(_, _, _)
BCmpAt(a, b, i) ==
    IF i = 0 THEN 0
    ELSE IF a[i] < b[i] THEN -1
    ELSE IF a[i] > b[i] THEN 1
    ELSE BCmpAt(a, b, i - 1)

BCmp(a, b) ==
    IF Len(a) < Len(b) THEN -1
    ELSE IF Len(a) > Len(b) THEN 1
    ELSE BCmpAt(a, b, Len(a))

\* a * k + c for 0 <= k, c < Base
RECURSIVE BMulSmallC(_, _, _, _)
BMulSmallC(a, k, i, c) ==
    IF i > Len(a)
    THEN (IF c = 0 THEN <<>> ELSE <<c>>)
    ELSE LET x == a[i] * k + c
         IN  <<x % Base>> \o BMulSmallC(a, k, i + 1, x \div Base)

BMulSmall(a, k) == IF k = 0 THEN <<>> ELSE BMulSmallC(a, k, 1, 0)

Zeros(n) == [i \in 1..n |-> 0]

RECURSIVE BMulAt(_, _, _)
BMulAt(a, b, i) ==
    IF i > Len(b) THEN <<>>
    ELSE BAdd(IF b[i] = 0 THEN <<>> ELSE Zeros(i - 1) \o BMulSmall(a, b[i]),
              BMulAt(a, b, i + 1))

BMul(a, b) == IF a = <<>> \/ b = <<>> THEN <<>> ELSE BMulAt(a, b, 1)

\* floor(a / d) and a mod d for 0 < d < Base
RECURSIVE BDivSmallAt(_, _, _, _)
BDivSmallAt(a, d, i, r) ==
    IF i = 0 THEN [q |-> <<>>, r |-> r]
    ELSE LET x    == r * Base + a[i]
             rest == BDivSmallAt(a, d, i - 1, x % d)
         IN  [q |-> rest.q \o <<x \div d>>, r |-> rest.r]

BDivSmall(a, d) ==
    LET res == BDivSmallAt(a, d, Len(a), 0) IN [q |-> BTrim(res.q), r |-> res.r]

\* a * 2^n
BShl(a, n) ==
    IF a = <<>> THEN <<>>
    ELSE Zeros(n \div LimbBits) \o BMulSmall(a, 2^(n % LimbBits))

\* floor(a / 2^n)
BShr(a, n) ==
    LET k == n \div LimbBits
    IN  IF k >= Len(a) THEN <<>>
        ELSE BDivSmall(SubSeq(a, k + 1, Len(a)), 2^(n % LimbBits)).q

\* whether a is a multiple of 2^n
BLowZero(a, n) ==
    LET k == n \div LimbBits
    IN  /\ \A i \in 1..k : i > Len(a) \/ a[i] = 0
        /\ k + 1 > Len(a) \/ a[k + 1] % 2^(n % LimbBits) = 0

RECURSIVE IntBitLen(_)
IntBitLen(n) == IF n = 0 THEN 0 ELSE 1 + IntBitLen(n \div 2)

BBitLen(a) == IF a = <<>> THEN 0 ELSE LimbBits * (Len(a) - 1) + IntBitLen(a[Len(a)])

BIsOdd(a) == a # <<>> /\ a[1] % 2 = 1

(***************************************************************************)
(* Exact binary numbers [s, e, m] = (-1)^s * m * 2^e, m any natural, and   *)
(* floats: the exact numbers whose m has exactly MantBits bits, and zero.  *)
(***************************************************************************)
MantBits == 52 + 1

FZero == [s |-> 0, e |-> 0, m |-> <<>>]

IsZero(x) == x.m = <<>>

\* The float nearest to the exact number x, ties to even.
FRound(x) ==
    IF x.m = <<>> THEN FZero
    ELSE LET len == BBitLen(x.m)
         IN  IF len <= MantBits
             THEN [s |-> x.s, e |-> x.e - (MantBits - len),
                   m |-> BShl(x.m, MantBits - len)]
             ELSE LET sh    == len - MantBits
                      q     == BShr(x.m, sh)
                      guard == BIsOdd(BShr(x.m, sh - 1))
                      rest  == ~BLowZero(x.m, sh - 1)
                      up    == guard /\ (rest \/ BIsOdd(q))
                      q1    == IF up THEN BAdd(q, <<1>>) ELSE q
                  IN  IF BBitLen(q1) > MantBits
                      THEN [s |-> x.s, e |-> x.e + sh + 1, m |-> BShr(q1, 1)]
                      ELSE [s |-> x.s, e |-> x.e + sh, m |-> q1]

\* The exact sum of two exact numbers.
XAdd(x, y) ==
    IF x.m = <<>> THEN y
    ELSE IF y.m = <<>> THEN x
    ELSE LET e  == IF x.e < y.e THEN x.e ELSE y.e
             mx == BShl(x.m, x.e - e)
             my == BShl(y.m, y.e - e)
             c  == BCmp(mx, my)
         IN  IF x.s = y.s THEN [s |-> x.s, e |-> e, m |-> BAdd(mx, my)]
             ELSE IF c = 0 THEN FZero
             ELSE IF c > 0 THEN [s |-> x.s, e |-> e, m |-> BSub(mx, my)]
             ELSE [s |-> y.s, e |-> e, m |-> BSub(my, mx)]

XNeg(x) == IF x.m = <<>> THEN x ELSE [x EXCEPT !.s = 1 - x.s]

XMul(x, y) ==
    IF x.m = <<>> \/ y.m = <<>> THEN FZero
    ELSE [s |-> (x.s + y.s) % 2, e |-> x.e + y.e, m |-> BMul(x.m, y.m)]

\* -1, 0, 1 as x < y, x = y, x > y
XCmp(x, y) ==
    LET d == XAdd(x, XNeg(y))
    IN  IF d.m = <<>> THEN 0 ELSE IF d.s = 1 THEN -1 ELSE 1

XAbs(x) == [x EXCEPT !.s = 0]

\* Python's float operators
FAdd(x, y) == FRound(XAdd(x, y))
FSub(x, y) == FRound(XAdd(x, XNeg(y)))
FMul(x, y) == FRound(XMul(x, y))
FLt(x, y) == XCmp(x, y) < 0
FLe(x, y) == XCmp(x, y) <= 0

\* float(n) for an int n, and the float of the decimal literal p/q (or of the
\* float division p / q): the correctly rounded quotient, q below Base.
FromInt(n) ==
    IF n < 0 THEN FRound([s |-> 1, e |-> 0, m |-> BFromInt(-n)])
    ELSE FRound([s |-> 0, e |-> 0, m |-> BFromInt(n)])

QuotBits == 6 * LimbBits

FromRatio(p, q) ==
    LET d == BDivSmall(BShl(BFromInt(p), QuotBits), q)
        \* a sticky bit below the quotient stands for the remainder
        m == BAdd(BShl(d.q, 1), IF d.r = 0 THEN <<>> ELSE <<1>>)
    IN  FRound([s |-> 0, e |-> -(QuotBits + 1), m |-> m])

\* Python's max(a, b) and min(a, b): the first argument unless the second is
\* strictly greater (smaller).
PyMax(a, b) == IF FLt(a, b) THEN b ELSE a
PyMin(a, b) == IF FLt(b, a) THEN b ELSE a

(***************************************************************************)
(* Parameters (py.py lines 18-39).  A decimal literal is the float nearest *)
(* to it.                                                                  *)
(***************************************************************************)
START_DATE == [y |-> 2025, m |-> 11, d |-> 23]
MONTHS == 12

STARTING_PLAYERS == 1000
AVG_DEPOSIT == FromInt(100)
WAGER_MULTIPLIER == FromInt(7)

CASHBACK_RATE == FromRatio(3, 100)
HOUSE_EDGE == FromRatio(4, 100)
RAKEBACK_RATE == FromRatio(20, 100)
\* Mutant of CAP_RATE: the rate typed as 0.033.
CAP_RATE_Tenth == FromRatio(33, 1000)
CAP_RATE == FromRatio(33, 100)

ACQ_COST_PER_PLAYER == FromInt(40)
RETENTION_RATE == FromRatio(60, 100)

GROWTH_RATES_MAP == (1 :> FromInt(3)) @@ (2 :> FromRatio(15, 10)) @@ (3 :> FromRatio(5, 10))
DEFAULT_GROWTH_AFTER == FromRatio(35, 100)

RAKEBACK_PER_WAGER_FRAC == FMul(HOUSE_EDGE, RAKEBACK_RATE)
CASHBACK_PER_WAGER_FRAC == FMul(HOUSE_EDGE, CASHBACK_RATE)

\* The growth_model arguments simulate() is called with: the two models and
\* two strings that name none.
GrowthModels == {"retained_plus_new", "simple_growth", "unknown_model", ""}

(***************************************************************************)
(* Dates: records [y, m, d] of the proleptic Gregorian calendar.           *)
(***************************************************************************)
IsLeap(year) == (year % 4 = 0 /\ year % 100 # 0) \/ year % 400 = 0

\* calendar.monthrange(year, month)[1]
month_days(year, month) ==
    IF month = 2 THEN (IF IsLeap(year) THEN 29 ELSE 28)
    ELSE IF month \in {4, 6, 9, 11} THEN 30
    ELSE 31

\* Mutant of get_month_starts: the start date is not moved to the first of its
\* month.
get_month_starts_NoFirst(start_date, months) ==
    [i \in 1..months |->
        LET k == (start_date.m - 1) + (i - 1)
        IN  [y |-> start_date.y + k \div 12, m |-> (k % 12) + 1, d |-> start_date.d]]

\* datetime(year, month, 1) + pd.DateOffset(months=i) for i in range(months)
get_month_starts(start_date, months) ==
    [i \in 1..months |->
        LET k == (start_date.m - 1) + (i - 1)
        IN  [y |-> start_date.y + k \div 12, m |-> (k % 12) + 1, d |-> 1]]

RECURSIVE DaysBeforeMonth(_, _)
DaysBeforeMonth(year, month) ==
    IF month = 1 THEN 0
    ELSE DaysBeforeMonth(year, month - 1) + month_days(year, month - 1)

\* date.toordinal(): the day number, 0001-01-01 being day 1
toordinal(date) ==
    LET y1 == date.y - 1
    IN  y1 * 365 + y1 \div 4 - y1 \div 100 + y1 \div 400
        + DaysBeforeMonth(date.y, date.m) + date.d

\* date.weekday(): Monday is 0
weekday(date) == (toordinal(date) + 6) % 7

RECURSIVE DateMinus(_, _)
DateMinus(date, n) ==
    IF n = 0 THEN date
    ELSE IF date.d > 1 THEN DateMinus([date EXCEPT !.d = date.d - 1], n - 1)
    ELSE IF date.m > 1
         THEN DateMinus([y |-> date.y, m |-> date.m - 1,
                         d |-> month_days(date.y, date.m - 1)], n - 1)
    ELSE DateMinus([y |-> date.y - 1, m |-> 12, d |-> 31], n - 1)

\* Mutant of WeekStartOf: weeks that start on Sunday.
WeekStartOf_Sunday(date) == DateMinus(date, (weekday(date) + 1) % 7)

\* date.dt.to_period('W') ... p.start_time.date(): the week W-SUN ends on a
\* Sunday, so it starts on the Monday on or before the date.
WeekStartOf(date) == DateMinus(date, weekday(date))

(***************************************************************************)
(* The monthly recurrence (simulate, lines 66-132).                        *)
(***************************************************************************)
\* Mutant of get_growth_for_month: the default taken from index 3 on.
get_growth_for_month_Early(idx) ==
    IF idx > 2 THEN DEFAULT_GROWTH_AFTER ELSE GROWTH_RATES_MAP[idx]

get_growth_for_month(idx) ==
    IF idx \in DOMAIN GROWTH_RATES_MAP THEN GROWTH_RATES_MAP[idx]
    ELSE IF idx > 3 THEN DEFAULT_GROWTH_AFTER
    ELSE DEFAULT_GROWTH_AFTER

\* Mutant of KnownModel: no final else, any other selector runs the last branch.
KnownModel_Any(g) == TRUE

\* The selectors the if / elif chain of lines 75-85 accepts.
KnownModel(g) == g \in {"retained_plus_new", "simple_growth"}

\* Mutant of Players: simple_growth multiplies by growth_param, not by
\* 1 + growth_param.
Players_NoOne(g, current, growth_param) ==
    IF g = "retained_plus_new"
    THEN LET retained    == FMul(current, RETENTION_RATE)
             new_players == FMul(current, growth_param)
         IN  [retained_players |-> retained,
              new_players      |-> new_players,
              total_players    |-> FAdd(retained, new_players)]
    ELSE LET total    == FMul(current, growth_param)
             retained == FMul(current, RETENTION_RATE)
         IN  [retained_players |-> retained,
              new_players      |-> PyMax(FSub(total, retained), FZero),
              total_players    |-> total]

\* Lines 75-83: the player counts of a month, from the players carried in.
Players(g, current, growth_param) ==
    IF g = "retained_plus_new"
    THEN LET retained    == FMul(current, RETENTION_RATE)
             new_players == FMul(current, growth_param)
         IN  [retained_players |-> retained,
              new_players      |-> new_players,
              total_players    |-> FAdd(retained, new_players)]
    ELSE LET mult     == FAdd(FromInt(1), growth_param)
             total    == FMul(current, mult)
             retained == FMul(current, RETENTION_RATE)
         IN  [retained_players |-> retained,
              new_players      |-> PyMax(FSub(total, retained), FZero),
              total_players    |-> total]

\* Line 89
LifetimeCap(life_deposits) == FMul(life_deposits, CAP_RATE)

\* Mutant of ActualCashrakePaid: max for min.
ActualCashrakePaid_Max(expected_total_cashrake, remaining_cap_before) ==
    PyMax(expected_total_cashrake, remaining_cap_before)

\* Line 99
ActualCashrakePaid(expected_total_cashrake, remaining_cap_before) ==
    PyMin(expected_total_cashrake, remaining_cap_before)

\* Mutant of CapUsedAfter: = for +=.
CapUsedAfter_Assign(cap_used, actual_cashrake_paid) == actual_cashrake_paid

\* Line 100
CapUsedAfter(cap_used, actual_cashrake_paid) == FAdd(cap_used, actual_cashrake_paid)

\* Mutant of CarriedPlayers: the new players carried, not the total.
CarriedPlayers_New(row) == row.new_players

\* Line 130: the players carried into the next month.
CarriedPlayers(row) == row.total_players

(***************************************************************************)
(* The daily table (lines 137-158).                                        *)
(***************************************************************************)
\* Mutant of DayFrac: every month taken as 30 days long.
DayFrac_Thirty(ndays) == FromRatio(1, 30)

\* Line 143
DayFrac(ndays) == FromRatio(1, ndays)

\* Line 142: the days of a month of ndays days.
DayRange(ndays) == 1..ndays

\* Lines 144-157: the record of day d of the month of row r.
DailyRow(r, d, ndays) ==
    LET frac == DayFrac(ndays)
    IN  [date                    |-> [y |-> r.month_start.y, m |-> r.month_start.m, d |-> d],
         month_index             |-> r.month_index,
         players                 |-> FMul(r.total_players, frac),
         deposits                |-> FMul(r.deposits, frac),
         total_wagering          |-> FMul(r.total_wagering, frac),
         gross_revenue           |-> FMul(r.gross_revenue, frac),
         expected_cashback       |-> FMul(r.expected_cashback, frac),
         expected_rakeback       |-> FMul(r.expected_rakeback, frac),
         expected_total_cashrake |-> FMul(r.expected_total_cashrake, frac),
         actual_cashrake_paid    |-> FMul(r.actual_cashrake_paid, frac),
         acquisition_cost        |-> FMul(r.acquisition_cost, frac),
         net_profit              |-> FMul(r.net_profit, frac)]

(***************************************************************************)
(* The weekly table (lines 163-167).  groupby(...).sum() walks the rows in *)
(* order and adds each value to the running sum of the row's group, with   *)
(* Kahan's compensation for the float columns; the groups come out sorted  *)
(* by key.                                                                 *)
(***************************************************************************)
\* The float columns of daily_df; month_index is its one int column.
FloatCols == {"players", "deposits", "total_wagering", "gross_revenue",
              "expected_cashback", "expected_rakeback", "expected_total_cashrake",
              "actual_cashrake_paid", "acquisition_cost", "net_profit"}

NumericCols == FloatCols \cup {"month_index"}

ZeroOf(c) == IF c = "month_index" THEN 0 ELSE FZero

\* One step of the compensated sum: [sum, comp] after adding val.
KahanAdd(sum, comp, val) ==
    LET y == FSub(val, comp)
        t == FAdd(sum, y)
    IN  [sum |-> t, comp |-> FSub(FSub(t, sum), y)]

\* The running sum and compensation of every column of every group, after
\* the row `row` of group `key` is added.
GroupAdd(acc, key, row) ==
    LET old == IF key \in DOMAIN acc
               THEN acc[key]
               ELSE [c \in NumericCols |-> [sum |-> ZeroOf(c), comp |-> ZeroOf(c)]]
    IN  [k \in DOMAIN acc \cup {key} |->
            IF k = key
            THEN [c \in NumericCols |->
                    IF c = "month_index"
                    THEN [sum |-> old[c].sum + row[c], comp |-> 0]
                    ELSE KahanAdd(old[c].sum, old[c].comp, row[c])]
            ELSE acc[k]]

\* The order groupby gives its groups: ascending key.
KeyBefore(a, b) == toordinal(a) < toordinal(b)

\* The place of key k among the keys S in that order.
KeyRank(S, k) == Cardinality({j \in S : KeyBefore(j, k)}) + 1

SortedKeys(S) == [i \in 1..Cardinality(S) |-> CHOOSE k \in S : KeyRank(S, k) = i]

WeeklyTable(acc) ==
    LET keys == SortedKeys(DOMAIN acc)
    IN  [i \in 1..Len(keys) |->
            [c \in NumericCols \cup {"week_start"} |->
                IF c = "week_start" THEN keys[i] ELSE acc[keys[i]][c].sum]]

(***************************************************************************)
(* The run of simulate(growth_model).                                      *)
(***************************************************************************)
VARIABLES
    pc,                 \* "monthly", "daily", "weekstart", "groupby", "done", "error"
    growth_model,       \* the argument
    month_starts,       \* line 67
    m_idx,              \* the month the loop of line 73 is at
    current_players, lifetime_deposits, lifetime_cap_used,
    rows,               \* monthly_df
    r_idx, day,         \* the row and the day the loops of lines 138, 142 are at
    daily_list,         \* daily_df
    week_start,         \* the column daily_df['week_start']
    g_idx,              \* the row the group sum is at
    groups,             \* week_start -> running sums and compensations
    weekly_df

vars == <<pc, growth_model, month_starts, m_idx, current_players, lifetime_deposits,
          lifetime_cap_used, rows, r_idx, day, daily_list, week_start, g_idx,
          groups, weekly_df>>

Init ==
    /\ growth_model \in GrowthModels
    /\ pc = "monthly"
    /\ month_starts = get_month_starts(START_DATE, MONTHS)
    /\ m_idx = 1
    /\ current_players = FromInt(STARTING_PLAYERS)
    /\ lifetime_deposits = FZero
    /\ lifetime_cap_used = FZero
    /\ rows = <<>>
    /\ r_idx = 1
    /\ day = 1
    /\ daily_list = <<>>
    /\ week_start = <<>>
    /\ g_idx = 1
    /\ groups = <<>>
    /\ weekly_df = <<>>

\* One iteration of the loop of line 73 under a known growth model: lines
\* 74-130, statement by statement (each \E binds the value a statement assigns).
MonthStep ==
    /\ pc = "monthly"
    /\ m_idx <= Len(month_starts)
    /\ KnownModel(growth_model)
    /\ \E growth_param \in {get_growth_for_month(m_idx)} :
       \E p \in {Players(growth_model, current_players, growth_param)} :
       \E deposits \in {FMul(p.total_players, AVG_DEPOSIT)} :
       \E life_deposits \in {FAdd(lifetime_deposits, deposits)} :
       \E lifetime_cap \in {LifetimeCap(life_deposits)} :
       \E remaining_cap_before \in {PyMax(FZero, FSub(lifetime_cap, lifetime_cap_used))} :
       \E total_wagering \in {FMul(deposits, WAGER_MULTIPLIER)} :
       \E gross_revenue \in {FMul(total_wagering, HOUSE_EDGE)} :
       \E expected_cashback \in {FMul(total_wagering, CASHBACK_PER_WAGER_FRAC)} :
       \E expected_rakeback \in {FMul(total_wagering, RAKEBACK_PER_WAGER_FRAC)} :
       \E expected_total \in {FAdd(expected_cashback, expected_rakeback)} :
       \E paid \in {ActualCashrakePaid(expected_total, remaining_cap_before)} :
       \E cap_used \in {CapUsedAfter(lifetime_cap_used, paid)} :
       \E remaining_cap_after \in {PyMax(FZero, FSub(lifetime_cap, cap_used))} :
       \E acq_cost \in {FMul(p.new_players, ACQ_COST_PER_PLAYER)} :
       \E net_profit \in {FSub(FSub(gross_revenue, paid), acq_cost)} :
       \E row \in {[month_index             |-> m_idx,
                    month_start             |-> month_starts[m_idx],
                    growth_param            |-> growth_param,
                    growth_model            |-> growth_model,
                    retained_players        |-> p.retained_players,
                    new_players             |-> p.new_players,
                    total_players           |-> p.total_players,
                    deposits                |-> deposits,
                    lifetime_deposits       |-> life_deposits,
                    lifetime_cap            |-> lifetime_cap,
                    remaining_cap_before    |-> remaining_cap_before,
                    expected_cashback       |-> expected_cashback,
                    expected_rakeback       |-> expected_rakeback,
                    expected_total_cashrake |-> expected_total,
                    actual_cashrake_paid    |-> paid,
                    lifetime_cap_used       |-> cap_used,
                    remaining_cap_after     |-> remaining_cap_after,
                    total_wagering          |-> total_wagering,
                    gross_revenue           |-> gross_revenue,
                    acquisition_cost        |-> acq_cost,
                    net_profit              |-> net_profit]} :
           /\ rows' = Append(rows, row)
           /\ current_players' = CarriedPlayers(row)
           /\ lifetime_deposits' = life_deposits
           /\ lifetime_cap_used' = cap_used
    /\ m_idx' = m_idx + 1
    /\ pc' = IF m_idx = Len(month_starts) THEN "daily" ELSE "monthly"
    /\ UNCHANGED <<growth_model, month_starts, r_idx, day, daily_list, week_start,
                   g_idx, groups, weekly_df>>

\* Line 85: the first iteration raises ValueError("Unknown growth_model").
RaiseUnknown ==
    /\ pc = "monthly"
    /\ m_idx <= Len(month_starts)
    /\ ~KnownModel(growth_model)
    /\ pc' = "error"
    /\ UNCHANGED <<growth_model, month_starts, m_idx, current_players, lifetime_deposits,
                   lifetime_cap_used, rows, r_idx, day, daily_list, week_start, g_idx,
                   groups, weekly_df>>

\* One iteration of the inner loop of line 142.
DayStep ==
    /\ pc = "daily"
    /\ r_idx <= Len(rows)
    /\ LET r     == rows[r_idx]
           ndays == month_days(r.month_start.y, r.month_start.m)
           last  == \A d \in DayRange(ndays) : d <= day
       IN  /\ day \in DayRange(ndays)
           /\ daily_list' = Append(daily_list, DailyRow(r, day, ndays))
           /\ r_idx' = IF last THEN r_idx + 1 ELSE r_idx
           /\ day' = IF last THEN 1 ELSE day + 1
           /\ pc' = IF last /\ r_idx = Len(rows) THEN "weekstart" ELSE "daily"
    /\ UNCHANGED <<growth_model, month_starts, m_idx, current_players, lifetime_deposits,
                   lifetime_cap_used, rows, week_start, g_idx, groups, weekly_df>>

\* Lines 163-164: the week_start column.
WeekStartColumn ==
    /\ pc = "weekstart"
    /\ week_start' = [i \in 1..Len(daily_list) |-> WeekStartOf(daily_list[i].date)]
    /\ pc' = "groupby"
    /\ UNCHANGED <<growth_model, month_starts, m_idx, current_players, lifetime_deposits,
                   lifetime_cap_used, rows, r_idx, day, daily_list, g_idx, groups,
                   weekly_df>>

\* Lines 166-167: one row of the group sum; the last row ends the run with
\* the weekly table.
GroupStep ==
    /\ pc = "groupby"
    /\ g_idx <= Len(daily_list)
    /\ groups' = GroupAdd(groups, week_start[g_idx], daily_list[g_idx])
    /\ g_idx' = g_idx + 1
    /\ IF g_idx = Len(daily_list)
       THEN pc' = "done" /\ weekly_df' = WeeklyTable(groups')
       ELSE pc' = "groupby" /\ weekly_df' = weekly_df
    /\ UNCHANGED <<growth_model, month_starts, m_idx, current_players, lifetime_deposits,
                   lifetime_cap_used, rows, r_idx, day, daily_list, week_start>>

Next == MonthStep \/ RaiseUnknown \/ DayStep \/ WeekStartColumn \/ GroupStep

Spec == Init /\ [][Next]_vars

(***************************************************************************)
(* Exact arithmetic for stating the properties: sums of floats as the real *)
(* numbers they are, and closeness up to a relative error of 2^-50.        *)
(***************************************************************************)
Tolerance == [s |-> 0, e |-> -50, m |-> <<1>>]

XEq(x, y) == XCmp(x, y) = 0

XDist(x, y) == XAbs(XAdd(x, XNeg(y)))

\* |x - y| <= 2^-50 * |y|
WithinTol(x, y) == XCmp(XDist(x, y), XMul(Tolerance, XAbs(y))) <= 0

\* The exact sum of column col over the rows of table tbl whose index is in
\* S and in lo..hi (the sum of reals is the same in any order: by halves).
RECURSIVE ExactSumIn(_, _, _, _, _)
ExactSumIn(tbl, col, S, lo, hi) ==
    IF lo > hi THEN FZero
    ELSE IF lo = hi THEN (IF lo \in S THEN tbl[lo][col] ELSE FZero)
    ELSE XAdd(ExactSumIn(tbl, col, S, lo, (lo + hi) \div 2),
              ExactSumIn(tbl, col, S, (lo + hi) \div 2 + 1, hi))

ExactSum(tbl, col, S) == ExactSumIn(tbl, col, S, 1, Len(tbl))

RECURSIVE IntSumIn(_, _, _, _, _)
IntSumIn(tbl, col, S, lo, hi) ==
    IF lo > hi THEN 0
    ELSE IF lo = hi THEN (IF lo \in S THEN tbl[lo][col] ELSE 0)
    ELSE IntSumIn(tbl, col, S, lo, (lo + hi) \div 2)
         + IntSumIn(tbl, col, S, (lo + hi) \div 2 + 1, hi)

IntSum(tbl, col, S) == IntSumIn(tbl, col, S, 1, Len(tbl))

\* The sum in float arithmetic, added up row after row up to row last: acc is
\* the sum of the rows of S before row k (the test of next makes it a value
\* before the next row is added).
RECURSIVE FloatSumFrom(_, _, _, _, _, _)
FloatSumFrom(tbl, col, S, k, last, acc) ==
    IF k > last THEN acc
    ELSE LET next == IF k \in S THEN FAdd(acc, tbl[k][col]) ELSE acc
         IN  IF next.s \in {0, 1}
             THEN FloatSumFrom(tbl, col, S, k + 1, last, next)
             ELSE next

FloatSum(tbl, col, S) ==
    IF S = {} THEN FZero
    ELSE \* from the first row of S to its last
         LET first == CHOOSE k \in S : \A j \in S : k <= j
             last  == CHOOSE k \in S : \A j \in S : j <= k
         IN  FloatSumFrom(tbl, col, S, first, last, FZero)

\* v is the sum of the column: as a real number, or as added up in floats.
IsTheSum(v, tbl, col, S) ==
    \/ XEq(v, ExactSum(tbl, col, S))
    \/ v = FloatSum(tbl, col, S)

IsNearTheSum(v, tbl, col, S) == WithinTol(v, ExactSum(tbl, col, S))

\* The column of the monthly table a daily column splits.
MonthCol(c) == IF c = "players" THEN "total_players" ELSE c

\* The players a month starts from: the month before's total, 1000 for month 1.
CurrentAt(i) == IF i = 1 THEN FromInt(1000) ELSE rows[i - 1].total_players

\* C1: in every month record, actual_cashrake_paid is the smaller of
\* expected_total_cashrake and remaining_cap_before: it is one of the two and
\* at most each.
C1_PaidIsMin ==
    \A i \in 1..Len(rows) :
        LET r == rows[i]
        IN  /\ FLe(r.actual_cashrake_paid, r.expected_total_cashrake)
            /\ FLe(r.actual_cashrake_paid, r.remaining_cap_before)
            /\ \/ r.actual_cashrake_paid = r.expected_total_cashrake
               \/ r.actual_cashrake_paid = r.remaining_cap_before

C1_Witness ==
    /\ growth_model = "retained_plus_new"
    /\ Len(rows) = MONTHS
    /\ \A i \in 1..MONTHS :
          /\ ~IsZero(rows[i].actual_cashrake_paid)
          /\ FLt(rows[i].actual_cashrake_paid, rows[i].remaining_cap_before)

\* C2: lifetime_cap_used never decreases from one month to the next; after
\* every month it is at most that month's lifetime_cap, which is
\* lifetime_deposits * cap rate; and remaining_cap_after is
\* lifetime_cap - lifetime_cap_used, not clipped at 0.
C2_CapUsedMonotoneBelowCap ==
    /\ \A i \in 1..Len(rows) :
          LET r == rows[i]
          IN  /\ FLe(IF i = 1 THEN FZero ELSE rows[i - 1].lifetime_cap_used,
                     r.lifetime_cap_used)
              /\ r.lifetime_cap = FMul(r.lifetime_deposits, FromRatio(33, 100))
              /\ FLe(r.lifetime_cap_used, r.lifetime_cap)
              /\ r.remaining_cap_after = FSub(r.lifetime_cap, r.lifetime_cap_used)
    /\ Len(rows) > 0 => lifetime_cap_used = rows[Len(rows)].lifetime_cap_used

C2_Witness ==
    /\ growth_model = "simple_growth"
    /\ Len(rows) = MONTHS
    /\ \A i \in 2..MONTHS : FLt(rows[i - 1].lifetime_cap_used, rows[i].lifetime_cap_used)
    /\ FLt(rows[MONTHS].lifetime_cap_used, rows[MONTHS].lifetime_cap)

\* C3: under retained_plus_new, every month has retained_players =
\* current * 0.60, new_players = current * growth_param and total_players =
\* retained_players + new_players, current being the month before's
\* total_players (1000 for month 1); month 1 has growth_param 3.0, 600
\* retained, 3000 new and 3600 players in total.
C3_RetainedPlusNew ==
    growth_model = "retained_plus_new" =>
        /\ \A i \in 1..Len(rows) :
              LET r == rows[i]
              IN  /\ r.retained_players = FMul(CurrentAt(i), FromRatio(60, 100))
                  /\ r.new_players = FMul(CurrentAt(i), r.growth_param)
                  /\ r.total_players = FAdd(r.retained_players, r.new_players)
        /\ Len(rows) >= 1 =>
              /\ rows[1].growth_param = FromInt(3)
              /\ rows[1].retained_players = FromInt(600)
              /\ rows[1].new_players = FromInt(3000)
              /\ rows[1].total_players = FromInt(3600)
        /\ pc = "monthly" => current_players = CurrentAt(m_idx)

C3_Witness ==
    /\ growth_model = "retained_plus_new"
    /\ Len(rows) = MONTHS
    /\ rows[1].total_players = FromInt(3600)
    /\ rows[2].retained_players = FromInt(2160)
    /\ FLt(rows[MONTHS].total_players, rows[MONTHS - 1].total_players)

\* C4: under simple_growth, every month has total_players =
\* current * (1 + growth_param), retained_players = current * 0.60 and
\* new_players = max(total_players - retained_players, 0), current being the
\* month before's total_players (1000 for month 1); month 1 has 4000 players
\* in total, 600 retained and 3400 new.
C4_SimpleGrowth ==
    growth_model = "simple_growth" =>
        /\ \A i \in 1..Len(rows) :
              LET r    == rows[i]
                  diff == FSub(r.total_players, r.retained_players)
              IN  /\ r.total_players
                        = FMul(CurrentAt(i), FAdd(FromInt(1), r.growth_param))
                  /\ r.retained_players = FMul(CurrentAt(i), FromRatio(60, 100))
                  /\ r.new_players = (IF FLt(diff, FZero) THEN FZero ELSE diff)
        /\ Len(rows) >= 1 =>
              /\ rows[1].total_players = FromInt(4000)
              /\ rows[1].retained_players = FromInt(600)
              /\ rows[1].new_players = FromInt(3400)
        /\ pc = "monthly" => current_players = CurrentAt(m_idx)

C4_Witness ==
    /\ growth_model = "simple_growth"
    /\ Len(rows) = MONTHS
    /\ rows[1].new_players = FromInt(3400)
    /\ rows[2].total_players = FromInt(10000)
    /\ FLt(rows[MONTHS - 1].total_players, rows[MONTHS].total_players)

\* C5: with a selector other than retained_plus_new and simple_growth the run
\* has no monthly, daily or weekly record in any state, and it is either in
\* the error state or at the first iteration of the monthly loop, from where
\* its one possible step is to raise the error.
C5_UnknownModelNoOutput ==
    growth_model \notin {"retained_plus_new", "simple_growth"} =>
        /\ rows = <<>> /\ daily_list = <<>> /\ week_start = <<>> /\ weekly_df = <<>>
        /\ \/ pc = "error"
           \/ /\ pc = "monthly"
              /\ m_idx = 1
              /\ ENABLED RaiseUnknown
              /\ ~ENABLED (MonthStep \/ DayStep \/ WeekStartColumn \/ GroupStep)
        /\ pc = "error" => ~ENABLED Next

C5_Witness ==
    /\ growth_model = "unknown_model"
    /\ pc = "error"
    /\ rows = <<>> /\ daily_list = <<>> /\ weekly_df = <<>>

\* C6: the growth parameter of month index 1 is 3.0, of 2 is 1.5, of 3 is
\* 0.5 and of every index from 4 to N the default 0.35, and every month
\* record's growth_param is the one of its month_index.
GrowthTable(idx) ==
    IF idx = 1 THEN FromInt(3)
    ELSE IF idx = 2 THEN FromRatio(15, 10)
    ELSE IF idx = 3 THEN FromRatio(5, 10)
    ELSE FromRatio(35, 100)

C6_GrowthParam ==
    /\ \A i \in 1..Len(rows) : rows[i].growth_param = GrowthTable(rows[i].month_index)
    /\ pc = "monthly" /\ m_idx <= MONTHS => get_growth_for_month(m_idx) = GrowthTable(m_idx)

C6_Witness ==
    /\ Len(rows) = MONTHS
    /\ rows[3].growth_param = FromRatio(5, 10)
    /\ \A i \in 4..MONTHS : rows[i].growth_param = FromRatio(35, 100)

(***************************************************************************)
(* The daily table against the monthly one.                                *)
(***************************************************************************)
\* The daily records tagged with month index i.
DaysOfMonth(i) == {k \in 1..Len(daily_list) : daily_list[k].month_index = i}

\* Month i has one daily record per calendar day of its month, and they are
\* the records tagged i.
MonthDaysComplete(i) ==
    LET ms    == rows[i].month_start
        ndays == month_days(ms.y, ms.m)
    IN  \E S \in {DaysOfMonth(i)} :
          /\ Cardinality(S) = ndays
          /\ ndays = (IF ms.m = 2
                      THEN (IF (ms.y % 4 = 0 /\ ms.y % 100 # 0) \/ ms.y % 400 = 0
                            THEN 29 ELSE 28)
                      ELSE IF ms.m \in {4, 6, 9, 11} THEN 30 ELSE 31)
          /\ {daily_list[k].date : k \in S} = {[y |-> ms.y, m |-> ms.m, d |-> d] : d \in 1..ndays}
          /\ \A k \in 1..Len(daily_list) :
                (daily_list[k].date.y = ms.y /\ daily_list[k].date.m = ms.m) => k \in S

MonthSumsExact(i) ==
    \E S \in {DaysOfMonth(i)} :
        \A c \in FloatCols : IsTheSum(rows[i][MonthCol(c)], daily_list, c, S)

MonthSumsNear(i) ==
    \E S \in {DaysOfMonth(i)} :
        \A c \in FloatCols : IsNearTheSum(rows[i][MonthCol(c)], daily_list, c, S)

\* The months whose days the loop of line 138 has all emitted, looked at when
\* the last of them is complete and when the table is.
MonthsComplete ==
    IF pc = "daily" /\ day = 1 /\ r_idx > 1 THEN {r_idx - 1}
    ELSE IF pc \in {"weekstart", "done"} THEN 1..Len(rows)
    ELSE {}

\* C7 as stated: every month has exactly one daily record per calendar day,
\* tagged with its index, and each flow field and players sum over them to
\* the month's value.
C7_Original ==
    \A i \in MonthsComplete : MonthDaysComplete(i) /\ MonthSumsExact(i)

\* C7, amended: every month has exactly one daily record per calendar day
\* (28/29/30/31, leap-year aware), tagged with its index, and each flow field
\* and players sum over them to the month's value up to a relative error of
\* 2^-50.
C7_DailySumsNear ==
    \A i \in MonthsComplete : MonthDaysComplete(i) /\ MonthSumsNear(i)

\* November, December, January and February are complete, and the 30 daily
\* players of the first month do not add up to its 4000 players.
C7_Witness ==
    /\ growth_model = "simple_growth"
    /\ pc = "daily" /\ r_idx = 5 /\ day = 1
    /\ Cardinality(DaysOfMonth(4)) = 28
    /\ rows[1].total_players = FromInt(4000)
    /\ ~IsTheSum(rows[1].total_players, daily_list, "players", DaysOfMonth(1))

(***************************************************************************)
(* The weekly table against the daily one.                                 *)
(***************************************************************************)
\* Daily record k is of the week of weekly record j: its date is the
\* week_start or one of the 6 days after.
InWeek(k, j) ==
    toordinal(daily_list[k].date) - toordinal(weekly_df[j].week_start) \in 0..6

WeekMembers(j) == {k \in 1..Len(daily_list) : InWeek(k, j)}

AllRows(tbl) == 1..Len(tbl)

\* Every daily record is of exactly one weekly record, whose week_start is a
\* Monday; no weekly record is empty; the week_starts strictly increase.
WeeksPartition ==
    /\ \A k \in 1..Len(daily_list) :
          Cardinality({j \in 1..Len(weekly_df) : InWeek(k, j)}) = 1
    /\ \A j \in 1..Len(weekly_df) :
          /\ weekday(weekly_df[j].week_start) = 0
          /\ \E k \in 1..Len(daily_list) : InWeek(k, j)
    /\ \A j \in 1..(Len(weekly_df) - 1) :
          toordinal(weekly_df[j].week_start) < toordinal(weekly_df[j + 1].week_start)

WeekSumsExact ==
    /\ \A j \in 1..Len(weekly_df) :
          \E S \in {WeekMembers(j)} :
              /\ weekly_df[j].month_index = IntSum(daily_list, "month_index", S)
              /\ \A c \in FloatCols : IsTheSum(weekly_df[j][c], daily_list, c, S)
    /\ \A c \in FloatCols :
          XEq(ExactSum(weekly_df, c, AllRows(weekly_df)),
              ExactSum(daily_list, c, AllRows(daily_list)))

WeekSumsNear ==
    /\ \A j \in 1..Len(weekly_df) :
          \E S \in {WeekMembers(j)} :
              /\ weekly_df[j].month_index = IntSum(daily_list, "month_index", S)
              /\ \A c \in FloatCols : IsNearTheSum(weekly_df[j][c], daily_list, c, S)
    /\ IntSum(weekly_df, "month_index", AllRows(weekly_df))
          = IntSum(daily_list, "month_index", AllRows(daily_list))
    /\ \A c \in FloatCols :
          WithinTol(ExactSum(weekly_df, c, AllRows(weekly_df)),
                    ExactSum(daily_list, c, AllRows(daily_list)))

\* C8 as stated: the weekly records partition the daily ones by calendar week
\* (Monday start, one record per week, in increasing order) and every numeric
\* field of a weekly record equals the sum over its daily records, so that
\* the totals over the two tables are equal.
C8_Original == pc = "done" => WeeksPartition /\ WeekSumsExact

\* C8, amended: the same partition; month_index sums exactly, and every
\* float field of a weekly record, and its total over the table, is the sum
\* over the daily records up to a relative error of 2^-50.
C8_WeeklySumsNear == pc = "done" => WeeksPartition /\ WeekSumsNear

\* The table is complete: 53 weeks from Monday 2025-10-27, the first holding
\* the two days of November 1 and 2, and the second week's players are not
\* the sum of its seven days.
C8_Witness ==
    /\ growth_model = "simple_growth"
    /\ pc = "done"
    /\ Len(weekly_df) = 53
    /\ weekly_df[1].week_start = [y |-> 2025, m |-> 10, d |-> 27]
    /\ weekly_df[1].month_index = 2
    /\ weekly_df[10].month_index = 3 * 2 + 4 * 3
    /\ ~IsTheSum(weekly_df[2].players, daily_list, "players", WeekMembers(2))

\* C9: the cap never binds: in every month, expected_total_cashrake is at
\* most remaining_cap_before, actual_cashrake_paid is expected_total_cashrake
\* and remaining_cap_after is above 0.
C9_CapNeverBinds ==
    \A i \in 1..Len(rows) :
        LET r == rows[i]
        IN  /\ FLe(r.expected_total_cashrake, r.remaining_cap_before)
            /\ r.actual_cashrake_paid = r.expected_total_cashrake
            /\ FLt(FZero, r.remaining_cap_after)

C9_Witness ==
    /\ Len(rows) = MONTHS
    /\ pc = "daily"
    /\ \A i \in 1..MONTHS : FLt(rows[i].expected_total_cashrake, rows[i].remaining_cap_before)

\* C10: the monthly records are 12, of month_index 1..12 in order, their
\* month_start the first days of the months from November 2025 on; the daily
\* records are 365, their dates running day by day from 2025-11-01 to
\* 2026-10-31.
NthMonthStart(i) ==
    IF i <= 2 THEN [y |-> 2025, m |-> 10 + i, d |-> 1]
    ELSE [y |-> 2026, m |-> i - 2, d |-> 1]

C10_MonthsAndDates ==
    /\ \A i \in 1..Len(rows) :
          rows[i].month_index = i /\ rows[i].month_start = NthMonthStart(i)
    /\ Len(rows) <= 12
    /\ pc \in {"daily", "weekstart", "groupby", "done"} => Len(rows) = 12
    /\ \A k \in 1..(Len(daily_list) - 1) :
          toordinal(daily_list[k + 1].date) = toordinal(daily_list[k].date) + 1
    /\ Len(daily_list) >= 1 => daily_list[1].date = [y |-> 2025, m |-> 11, d |-> 1]
    /\ pc \in {"weekstart", "groupby", "done"} =>
          /\ Len(daily_list) = 365
          /\ daily_list[365].date = [y |-> 2026, m |-> 10, d |-> 31]

C10_Witness ==
    /\ pc = "weekstart"
    /\ growth_model = "retained_plus_new"
    /\ Len(rows) = 12
    /\ Len(daily_list) = 365
    /\ daily_list[22].date = [y |-> 2025, m |-> 11, d |-> 22]
    /\ daily_list[23].date = [y |-> START_DATE.y, m |-> START_DATE.m, d |-> START_DATE.d]

====
